---- MODULE Spec2Model ----
(***************************************************************************)
(* Verification model of the SX Bet quickstart: the fixed-point odds math  *)
(* (fill amount, potential payout, taker odds, remaining taker space) and  *)
(* the three signing flows (post order, fill order, cancel orders).        *)
(*                                                                         *)
(* Scaling.  TLC integers are 32 bits wide, the code's BigInt values are   *)
(* unbounded and its odds are scaled by 10^20.  The model keeps every      *)
(* formula as written in the code and scales the odds unit only: Base      *)
(* stands for BigInt(10**20) and MantBits for the 53-bit significand of a  *)
(* JavaScript Number.  The pair keeps what the code's pair has: Base is    *)
(* itself a Number (10^20 = 5^20 * 2^20 with 5^20 < 2^53; here             *)
(* 10^6 = 5^6 * 2^6 with 5^6 < 2^19), Base - 1 is not (the Numbers next to *)
(* Base are 2 apart here, 16384 apart in the code), and one unit in the    *)
(* last place is far below the second decimal that toFixed(2) prints.      *)
(* Amounts (token base units, 6 decimals) are not scaled.                  *)
(***************************************************************************)
EXTENDS Integers, Sequences, FiniteSets, TLC

\* BigInt(10**20), the odds scale (scaled, see above)
Base == 1000000
\* significand width of a Number on the odds scale (scaled, see above)
MantBits == 19
\* convertToNominalUnits' default parameter decimals = 6
Decimals == 6

\* model bounds
MaxAmount == 5
MaxStake == 25
OddsSpan == 4

Abs(n) == IF n < 0 THEN -n ELSE n

(***************************************************************************)
(* BigInt arithmetic                                                       *)
(***************************************************************************)
RECURSIVE MulDivQR(_, _, _)
\* <<q, r>> with a * b = q * c + r and 0 <= r < c, for a, b >= 0 and c > 0,
\* computed without forming a * b (BigInt has no width)
MulDivQR(a, b, c) ==
  IF b = 0 THEN <<0, 0>>
  ELSE LET h == MulDivQR(a, b \div 2, c)
           t == 2 * h[2] + (b % 2) * (a % c)
       IN  <<2 * h[1] + (b % 2) * (a \div c) + (t \div c), t % c>>

\* the BigInt expression a * b / c, c # 0: BigInt division truncates toward zero
BigIntMulDiv(a, b, c) ==
  LET q == MulDivQR(Abs(a), Abs(b), Abs(c))[1]
      negative == ((a < 0) # (b < 0)) # (c < 0)
  IN  IF negative THEN -q ELSE q

\* results of a call: a value returned or an error thrown
Unset == [kind |-> "unset", val |-> 0]
Return(v) == [kind |-> "return", val |-> v]
Throw(e) == [kind |-> "throw", val |-> e]
\* BigInt division by zero throws a RangeError
RangeError == "RangeError"

(***************************************************************************)
(* fill.js: calculatePotentialPayout, calculateFillAmount                  *)
(***************************************************************************)
\* mutant: divides by the odds instead of their complement
calculatePotentialPayoutByOdds(betAmount, percentageOdds) ==
  IF percentageOdds = 0 THEN Throw(RangeError)
  ELSE Return(BigIntMulDiv(betAmount, Base, percentageOdds))

calculatePotentialPayout(betAmount, percentageOdds) ==
  LET amount == betAmount
      odds == percentageOdds
      base == Base
      denominator == base - odds
  IN  IF denominator = 0 THEN Throw(RangeError)
      ELSE Return(BigIntMulDiv(amount, base, denominator))

\* mutant: rounds the quotient up instead of down
calculateFillAmountCeil(takerBetAmount, percentageOdds) ==
  IF Base - percentageOdds = 0 THEN Throw(RangeError)
  ELSE LET qr == MulDivQR(Abs(takerBetAmount), Abs(percentageOdds),
                          Abs(Base - percentageOdds))
       IN  Return(BigIntMulDiv(takerBetAmount, percentageOdds, Base - percentageOdds)
                    + (IF qr[2] # 0 THEN 1 ELSE 0))

\* mutant: takes the odds as a share of the stake itself
calculateFillAmountOfStake(takerBetAmount, percentageOdds) ==
  Return(BigIntMulDiv(takerBetAmount, percentageOdds, Base))

calculateFillAmount(takerBetAmount, percentageOdds) ==
  LET betAmount == takerBetAmount
      odds == percentageOdds
      base == Base
      denominator == base - odds
  IN  IF denominator = 0 THEN Throw(RangeError)
      ELSE Return(BigIntMulDiv(betAmount, odds, denominator))

(***************************************************************************)
(* JavaScript Numbers on the odds scale: a finite non-negative Number is   *)
(* <<m, e>>, the value m * 2^e, with m = 0 or 2^(MantBits-1) <= m <        *)
(* 2^MantBits.  Every operation rounds to nearest, ties to even.           *)
(***************************************************************************)
RECURSIVE BitLen(_)
BitLen(n) == IF n = 0 THEN 0 ELSE 1 + BitLen(n \div 2)

FlZero == <<0, 0>>
FlOne == <<2 ^ (MantBits - 1), -(MantBits - 1)>>

\* the Number nearest to (N + d) * 2^k, where 0 <= d < 1 and d > 0 iff sticky;
\* a sticky N has more than MantBits bits
FlRound(N, k, sticky) ==
  LET L == BitLen(N)
  IN  IF N = 0 THEN FlZero
      ELSE IF L <= MantBits THEN <<N * 2 ^ (MantBits - L), k - (MantBits - L)>>
      ELSE LET s == L - MantBits
               q == N \div 2 ^ s
               r == N % 2 ^ s
               half == 2 ^ (s - 1)
               up == r > half \/ (r = half /\ (sticky \/ q % 2 = 1))
               m == IF up THEN q + 1 ELSE q
           IN  IF m = 2 ^ MantBits THEN <<2 ^ (MantBits - 1), k + s + 1>>
               ELSE <<m, k + s>>

\* ToNumber of a non-negative integer (a decimal string or a BigInt)
FlFromInt(n) == FlRound(n, 0, FALSE)

RECURSIVE DivBits(_, _, _)
\* <<quotient, remainder>> of (r * 2^n) / d by long division
DivBits(r, d, n) ==
  IF n = 0 THEN <<r \div d, r % d>>
  ELSE LET h == DivBits(r, d, n - 1)
       IN  <<2 * h[1] + ((2 * h[2]) \div d), (2 * h[2]) % d>>

\* the Number a / b, b # 0
FlDiv(a, b) ==
  IF a[1] = 0 THEN FlZero
  ELSE LET qr == DivBits(a[1], b[1], MantBits + 2)
       IN  FlRound(qr[1], a[2] - b[2] - (MantBits + 2), qr[2] # 0)

\* the Number 1 - x: its sign and, when positive, its magnitude (the code reads
\* the magnitude only after testing impliedOdds > 0)
FlOneMinus(x) ==
  IF x[1] = 0 THEN [sign |-> 1, mag |-> FlOne]
  ELSE IF x[2] >= -(MantBits - 1)
       THEN [sign |-> IF x = FlOne THEN 0 ELSE -1, mag |-> FlZero]
  ELSE LET sh == x[2] + MantBits + 2
           lost == IF -sh >= MantBits THEN TRUE
                   ELSE sh < 0 /\ x[1] % 2 ^ (-sh) # 0
           X == IF sh >= 0 THEN x[1] * 2 ^ sh
                ELSE IF -sh >= MantBits THEN 0
                ELSE x[1] \div 2 ^ (-sh)
           N == 2 ^ (MantBits + 2) - X - (IF lost THEN 1 ELSE 0)
       IN  [sign |-> 1, mag |-> FlRound(N, -(MantBits + 2), lost)]

\* Number.prototype.toFixed(2) of a Number z >= 0, in hundredths: the integer n
\* with n / 100 nearest to z, the larger one on a tie
FlToFixed2(z) ==
  IF z[2] >= 0 THEN 100 * z[1] * 2 ^ z[2]
  ELSE (100 * z[1] + 2 ^ (-z[2] - 1)) \div 2 ^ (-z[2])

\* what a formatter returns: "N/A", or a decimal with two digits after the point
\* (sign, and the digits as a count of hundredths)
NotApplicable == [na |-> TRUE, neg |-> FALSE, cents |-> 0]
Fixed2(negative, n) == [na |-> FALSE, neg |-> negative, cents |-> n]

(***************************************************************************)
(* formatter.js / utils: calculateTakerOdds                                *)
(***************************************************************************)
\* mutant: inverts the implied probability itself, without the complement
calculateTakerOddsNoComplement(percentageOdds) ==
  LET impliedOdds == FlDiv(FlFromInt(percentageOdds), FlFromInt(Base))
  IN  IF impliedOdds[1] > 0
      THEN Fixed2(FALSE, FlToFixed2(FlDiv(FlOne, impliedOdds)))
      ELSE NotApplicable

calculateTakerOdds(percentageOdds) ==
  LET impliedOdds == FlOneMinus(FlDiv(FlFromInt(percentageOdds), FlFromInt(Base)))
  IN  IF impliedOdds.sign > 0
      THEN Fixed2(FALSE, FlToFixed2(FlDiv(FlOne, impliedOdds.mag)))
      ELSE NotApplicable

(***************************************************************************)
(* formatter.js / utils: convertToNominalUnits, calculateRemainingTakerSpace*)
(* Amounts are not scaled: Number(remaining) is exact (|remaining| < 2^53) *)
(* and the division by 10^decimals rounds to a 53-bit significand.         *)
(***************************************************************************)
RECURSIVE FloorLog2(_, _)
\* floor(log2(n / d)) for n, d > 0
FloorLog2(n, d) ==
  IF n < d THEN FloorLog2(2 * n, d) - 1
  ELSE IF n < 2 * d THEN 0
  ELSE 1 + FloorLog2(n \div 2, d)

RECURSIVE PowMod(_, _, _)
PowMod(b, e, m) == IF e = 0 THEN 1 % m ELSE (b * PowMod(b, e - 1, m)) % m

\* k odd: whether the Number nearest to k / 200 (an exact tie between two
\* hundredths) is at or above k / 200, so that toFixed(2) takes the upper one.
\* With s = 52 - floor(log2(k / 200)) the significand is k * 2^s / 200 rounded,
\* and (k * 2^s) mod 200 tells on which side of k / 200 it falls.
TieRoundsUp(k) ==
  LET s == 52 - FloorLog2(k, 200)
      r == ((k % 200) * PowMod(2, s, 200)) % 200
  IN  r = 0 \/ r > 100

\* (ethereumAmount / Math.pow(10, decimals)).toFixed(2), decimals >= 3
convertToNominalUnits(ethereumAmount, decimals) ==
  LET a == Abs(ethereumAmount)
      unit == 10 ^ (decimals - 2)
      h == a \div unit
      rem == a % unit
      up == rem > unit \div 2
            \/ (rem = unit \div 2 /\ TieRoundsUp(a \div (unit \div 2)))
  IN  Fixed2(ethereumAmount < 0, IF up THEN h + 1 ELSE h)

\* mutant: multiplies by the odds and divides by the scale
remainingBaseUnitsInverted(order) ==
  BigIntMulDiv(order.totalBetSize - order.fillAmount, order.percentageOdds, Base)
    - (order.totalBetSize - order.fillAmount)

\* formatter.js line 16: the BigInt value named remaining
remainingBaseUnits(order) ==
  BigIntMulDiv(order.totalBetSize - order.fillAmount, Base, order.percentageOdds)
    - (order.totalBetSize - order.fillAmount)

calculateRemainingTakerSpace(order) ==
  IF order.percentageOdds = 0 THEN Throw(RangeError)
  ELSE Return(convertToNominalUnits(remainingBaseUnits(order), Decimals))

(***************************************************************************)
(* State.  The odds math is pure: its inputs are drawn at Init and each    *)
(* action applies one function and records what the call returned or threw.*)
(***************************************************************************)
VARIABLES
  order,            \* the order given to the formatters and to the fill
  takerBetAmount,   \* the taker's stake given to the fill.js functions
  otherOdds,        \* the argument of a second calculateTakerOdds call
  fillAmountOut,    \* calculateFillAmount(takerBetAmount, order.percentageOdds)
  payoutOut,        \* calculatePotentialPayout(takerBetAmount, order.percentageOdds)
  takerOddsOut,     \* calculateTakerOdds(order.percentageOdds)
  otherOddsOut,     \* calculateTakerOdds(otherOdds)
  remainingOut      \* calculateRemainingTakerSpace(order)

mathVars == <<order, takerBetAmount, otherOdds, fillAmountOut, payoutOut,
              takerOddsOut, otherOddsOut, remainingOut>>

(***************************************************************************)
(* State of the signing flows.  One call of one flow function runs at a    *)
(* time; it suspends at each await (the wallet's sign call, the HTTP       *)
(* request) and the environment resolves or rejects the awaited promise.   *)
(***************************************************************************)
VARIABLES
  env,        \* process.env: whether PRIVATE_KEY is set
  pc,         \* "idle", "signing" (awaiting the wallet), "submitting"
              \* (awaiting fetch), "done"
  call,       \* the function called and its arguments
  frame,      \* the local variables live across the awaits
  signCalls,  \* every invocation of wallet.signMessage / wallet.signTypedData
  httpCalls,  \* every fetch(..., {method: 'POST'}) issued
  outcome     \* what the call returned or threw to its caller

flowVars == <<env, pc, call, frame, signCalls, httpCalls, outcome>>

(***************************************************************************)
(* State of the websocket client (SXWebsocketClient) and of the Ably       *)
(* connection it drives.  An async method suspends at each await; what is  *)
(* suspended is kept in tasks.                                             *)
(***************************************************************************)
VARIABLES
  realtime,          \* this.realtime: FALSE for null, TRUE once created
  isConnected,       \* this.isConnected
  activeChannels,    \* this.activeChannels: the keys, in insertion order
  orderBookHistory,  \* this.orderBookHistory: market hash -> history array
  emitted,           \* the 'orderBookUpdate' events passed to this.emit
  listeners,         \* Ably: callbacks subscribed on each market's channel
  tasks              \* the suspended unsubscribeFromMarket / disconnect calls,
                     \* per market what the last completed call returned, and
                     \* the markets subscribeToMarket was called for while
                     \* disconnect() was suspended

wsVars == <<realtime, isConnected, activeChannels, orderBookHistory, emitted,
            listeners, tasks>>

vars == <<mathVars, flowVars, wsVars>>

\* the market hashes the client is used with
Markets == {"0xmarketA", "0xmarketB"}

\* nothing suspended, no call made yet
NoTasks ==
  [unsubs |-> {},
   disc |-> [pc |-> "none", iter |-> 0, overlap |-> {}],
   last |-> [m \in Markets |-> "none"]]

\* the client as its constructor leaves it
WsIdle ==
  /\ realtime = FALSE
  /\ isConnected = FALSE
  /\ activeChannels = <<>>
  /\ orderBookHistory = [m \in {} |-> <<>>]
  /\ emitted = <<>>
  /\ listeners = [m \in Markets |-> 0]
  /\ tasks = NoTasks

NoCall == [fn |-> "none"]
NoFrame == [none |-> TRUE]

\* the flows at rest (while the odds functions are exercised)
FlowIdle ==
  /\ env = [PRIVATE_KEY |-> TRUE]
  /\ pc = "idle"
  /\ call = NoCall
  /\ frame = NoFrame
  /\ signCalls = <<>>
  /\ httpCalls = <<>>
  /\ outcome = Unset
  /\ WsIdle

\* percentageOdds values: both ends of the scale with their neighbours, and
\* odds inside it
OddsInputs ==
  (0 .. OddsSpan) \cup ((Base - OddsSpan) .. (Base + OddsSpan))
    \cup {Base \div 200, Base \div 4, Base \div 3, Base \div 2, (3 * Base) \div 4}

AmountInputs == 0 .. MaxAmount

StakeInputs == 0 .. MaxStake

\* fill.js: a stake and the odds of the order to fill
FillMathInit ==
  /\ order \in [totalBetSize : {0}, fillAmount : {0}, percentageOdds : OddsInputs]
  /\ takerBetAmount \in StakeInputs
  /\ otherOdds = 0
  /\ fillAmountOut = Unset
  /\ payoutOut = Unset
  /\ takerOddsOut = Unset
  /\ otherOddsOut = Unset
  /\ remainingOut = Unset
  /\ FlowIdle

\* formatter.js / utils: an order as the API returns it
FormatterInit ==
  /\ order \in [totalBetSize : AmountInputs, fillAmount : AmountInputs,
                percentageOdds : OddsInputs]
  /\ takerBetAmount = 0
  /\ otherOdds = 0
  /\ fillAmountOut = Unset
  /\ payoutOut = Unset
  /\ takerOddsOut = Unset
  /\ otherOddsOut = Unset
  /\ remainingOut = Unset
  /\ FlowIdle

CallCalculateFillAmount ==
  /\ fillAmountOut.kind = "unset"
  /\ fillAmountOut' = calculateFillAmount(takerBetAmount, order.percentageOdds)
  /\ UNCHANGED <<order, takerBetAmount, otherOdds, payoutOut, takerOddsOut,
                 otherOddsOut, remainingOut>>
  /\ UNCHANGED <<flowVars, wsVars>>

CallCalculatePotentialPayout ==
  /\ payoutOut.kind = "unset"
  /\ payoutOut' = calculatePotentialPayout(takerBetAmount, order.percentageOdds)
  /\ UNCHANGED <<order, takerBetAmount, otherOdds, fillAmountOut, takerOddsOut,
                 otherOddsOut, remainingOut>>
  /\ UNCHANGED <<flowVars, wsVars>>

CallCalculateTakerOdds ==
  /\ takerOddsOut.kind = "unset"
  /\ takerOddsOut' = Return(calculateTakerOdds(order.percentageOdds))
  /\ UNCHANGED <<order, takerBetAmount, otherOdds, fillAmountOut, payoutOut,
                 otherOddsOut, remainingOut>>
  /\ UNCHANGED <<flowVars, wsVars>>

CallCalculateTakerOddsOther ==
  /\ otherOddsOut = Unset
  /\ \E q \in OddsInputs :
       /\ otherOdds' = q
       /\ otherOddsOut' = Return(calculateTakerOdds(q))
  /\ UNCHANGED <<order, takerBetAmount, fillAmountOut, payoutOut, takerOddsOut,
                 remainingOut>>
  /\ UNCHANGED <<flowVars, wsVars>>

CallCalculateRemainingTakerSpace ==
  /\ remainingOut.kind = "unset"
  /\ remainingOut' = calculateRemainingTakerSpace(order)
  /\ UNCHANGED <<order, takerBetAmount, otherOdds, fillAmountOut, payoutOut,
                 takerOddsOut, otherOddsOut>>
  /\ UNCHANGED <<flowVars, wsVars>>

FillMathNext ==
  \/ CallCalculateFillAmount
  \/ CallCalculatePotentialPayout

FormatterNext ==
  \/ CallCalculateTakerOdds
  \/ CallCalculateTakerOddsOther
  \/ CallCalculateRemainingTakerSpace

FillMathSpec == FillMathInit /\ [][FillMathNext]_vars

FormatterSpec == FormatterInit /\ [][FormatterNext]_vars

\* one token in base units (6 decimals)
TokenUnit == 10 ^ Decimals

\* the odds literal '500000000000000000' of the utils README examples: 5 * 10^17,
\* the 200th part of 10^20
ReadmeOdds == Base \div 200

\* an order of whole tokens shown to the taker, and the stake they quote
QuoteInit ==
  /\ order \in [totalBetSize : {TokenUnit, 2 * TokenUnit},
                fillAmount : {0, TokenUnit \div 2, TokenUnit},
                percentageOdds : {ReadmeOdds, Base \div 4, Base \div 2,
                                  (3 * Base) \div 4}]
  /\ takerBetAmount \in {TokenUnit \div 2, TokenUnit}
  /\ otherOdds = 0
  /\ fillAmountOut = Unset
  /\ payoutOut = Unset
  /\ takerOddsOut = Unset
  /\ otherOddsOut = Unset
  /\ remainingOut = Unset
  /\ FlowIdle

QuoteNext ==
  \/ CallCalculateTakerOdds
  \/ CallCalculateRemainingTakerSpace
  \/ CallCalculateFillAmount
  \/ CallCalculatePotentialPayout

QuoteSpec == QuoteInit /\ [][QuoteNext]_vars

(***************************************************************************)
(* Properties of the odds math                                             *)
(***************************************************************************)
ValidOdds(p) == 0 < p /\ p < Base

\* C1: for a stake >= 0 and odds strictly inside (0, Base), the potential
\* payout minus the stake equals the fill amount exactly.
C1_PayoutMinusStakeIsFill ==
  (/\ ValidOdds(order.percentageOdds) /\ takerBetAmount >= 0
   /\ fillAmountOut.kind # "unset" /\ payoutOut.kind # "unset")
  => /\ fillAmountOut.kind = "return"
     /\ payoutOut.kind = "return"
     /\ payoutOut.val - takerBetAmount = fillAmountOut.val

\* both functions have returned for odds inside the scale where neither
\* quotient is exact
C1_Witness ==
  /\ ValidOdds(order.percentageOdds)
  /\ fillAmountOut.kind = "return" /\ payoutOut.kind = "return"
  /\ fillAmountOut.val > 0
  /\ (takerBetAmount * order.percentageOdds) % (Base - order.percentageOdds) # 0

\* C2: at percentageOdds = 0 and at percentageOdds = Base neither
\* calculateFillAmount nor calculatePotentialPayout returns a value: both fail.
C2_BoundaryOddsRaise ==
  order.percentageOdds \in {0, Base}
  => /\ fillAmountOut.kind # "return"
     /\ payoutOut.kind # "return"

\* C3: for a stake >= 0 and odds inside (0, Base) calculateFillAmount returns
\* r = floor(stake * odds / (Base - odds)):
\* r * (Base - odds) <= stake * odds < (r + 1) * (Base - odds).
C3_FillAmountIsFloor ==
  (/\ ValidOdds(order.percentageOdds) /\ takerBetAmount >= 0
   /\ fillAmountOut.kind # "unset")
  => /\ fillAmountOut.kind = "return"
     /\ fillAmountOut.val * (Base - order.percentageOdds)
          <= takerBetAmount * order.percentageOdds
     /\ takerBetAmount * order.percentageOdds
          < (fillAmountOut.val + 1) * (Base - order.percentageOdds)

\* a fill amount that was rounded down from a non-integer quotient
C3_Witness ==
  /\ ValidOdds(order.percentageOdds)
  /\ fillAmountOut.kind = "return"
  /\ fillAmountOut.val > 0
  /\ fillAmountOut.val * (Base - order.percentageOdds)
       < takerBetAmount * order.percentageOdds

OrderInRange ==
  /\ 0 <= order.fillAmount /\ order.fillAmount <= order.totalBetSize
  /\ ValidOdds(order.percentageOdds)

\* C7: for 0 <= fillAmount <= totalBetSize and odds inside (0, Base) the
\* remaining liquidity in base units is >= 0 and is rendered without a minus
\* sign; it is 0, rendered "0.00", when fillAmount = totalBetSize.
C7_RemainingNonNegative ==
  (OrderInRange /\ remainingOut.kind # "unset")
  => /\ remainingOut.kind = "return"
     /\ remainingBaseUnits(order) >= 0
     /\ ~remainingOut.val.na /\ ~remainingOut.val.neg
     /\ order.fillAmount = order.totalBetSize
          => /\ remainingBaseUnits(order) = 0
             /\ remainingOut.val.cents = 0

\* a completely filled order of non-zero size has been rendered
C7_Witness ==
  /\ OrderInRange
  /\ order.totalBetSize > 0 /\ order.fillAmount = order.totalBetSize
  /\ remainingOut.kind = "return"
  /\ remainingOut.val.cents = 0

\* C8: calculateRemainingTakerSpace fails whenever fillAmount > totalBetSize and
\* never returns a rendering for such an order.
C8_OverfilledOrderRaises ==
  (order.fillAmount > order.totalBetSize /\ remainingOut.kind # "unset")
  => remainingOut.kind = "throw"

\* the two calculateTakerOdds calls, on p < q inside the scale
TakerOddsPair ==
  /\ takerOddsOut.kind = "return" /\ otherOddsOut.kind = "return"
  /\ ValidOdds(order.percentageOdds) /\ ValidOdds(otherOdds)
  /\ order.percentageOdds < otherOdds

C10_SentinelExactlyFromBase ==
  takerOddsOut.kind # "unset"
  => /\ takerOddsOut.kind = "return"
     /\ order.percentageOdds >= Base => takerOddsOut.val.na
     /\ (0 <= order.percentageOdds /\ order.percentageOdds < Base)
          => ~takerOddsOut.val.na

\* the order and the stake of the worked example: one token offered, nothing
\* filled, odds of 50%, a stake of one token
ExampleQuote ==
  /\ order = [totalBetSize |-> TokenUnit, fillAmount |-> 0,
              percentageOdds |-> Base \div 2]
  /\ takerBetAmount = TokenUnit

\* C11: for totalBetSize 1000000, fillAmount 0 and odds of 50%,
\* calculateTakerOdds gives "2.00" and calculateRemainingTakerSpace "1.00";
\* for a stake of 1000000 at those odds calculateFillAmount gives 1000000
\* and calculatePotentialPayout 2000000.
C11_WorkedExample ==
  ExampleQuote =>
    /\ takerOddsOut.kind # "unset" =>
          takerOddsOut = Return(Fixed2(FALSE, 200))
    /\ remainingOut.kind # "unset" =>
          remainingOut = Return(Fixed2(FALSE, 100))
    /\ fillAmountOut.kind # "unset" =>
          /\ fillAmountOut.kind = "return"
          /\ fillAmountOut.val = 1000000
    /\ payoutOut.kind # "unset" =>
          /\ payoutOut.kind = "return"
          /\ payoutOut.val = 2000000

C11_Witness ==
  /\ ExampleQuote
  /\ takerOddsOut.kind = "return"
  /\ remainingOut.kind = "return"
  /\ fillAmountOut.kind = "return"
  /\ payoutOut.kind = "return"

ReadmeOrder ==
  [totalBetSize |-> 1000000, fillAmount |-> 500000, percentageOdds |-> ReadmeOdds]

EIP712_FILL_HASHER == "0x845a2Da2D70fEDe8474b1C8518200798c60aC364"
TAKER_ADDRESS == "0xADb93842A9cEa59A11Fed9E3D9870D37eb2eC9Dd"
DOMAIN_NAME == "SX Bet"
DOMAIN_VERSION == "6.0"
CHAIN_ID == 4162
\* mutant: the taker named as beneficiary
TakerAsBeneficiary == TAKER_ADDRESS
ZeroAddress == "0x0000000000000000000000000000000000000000"
ZeroHash ==
  "0x0000000000000000000000000000000000000000000000000000000000000000"

\* bounds of the flow inputs
MaxBet == 2
MaxSalt == 2
MaxHashes == 2
MaxTime == 2

\* a wallet is known by its address; EnvWallet is new ethers.Wallet(PRIVATE_KEY)
Wallets == {[address |-> TAKER_ADDRESS, present |-> TRUE],
            [address |-> "0xOtherWallet", present |-> TRUE]}
EnvWallet == [address |-> "0xPrivateKeyHolder", present |-> TRUE]
\* a wallet argument left out by the caller (undefined)
NoWallet == [address |-> "undefined", present |-> FALSE]
WalletArgs == Wallets \cup {NoWallet}
\* the signature a wallet produces over a message
Sig(wallet, message) == [by |-> wallet.address, over |-> message]

Undefined == "undefined"
SignerError == "SignerError"
TypeError == "TypeError"
FetchError == "FetchError"
ApiError == "ApiError"
NoPrivateKey == "PRIVATE_KEY not found in .env file"
NoOrderHashes == "No order hashes provided"

FlowOdds == {0, 1, Base \div 2, Base - 1, Base, Base + 1}
BetInputs == 1 .. MaxBet
Salts == 1 .. MaxSalt
Timestamps == 1 .. MaxTime
Hashes == {"0xhash1", "0xhash2"}
HashLists == UNION {[1 .. n -> Hashes] : n \in 0 .. MaxHashes}
\* what input.split(',').map(trim) yields: never an empty list, [''] for
\* empty input
InputLists == {<<"">>} \cup (HashLists \ {<<>>})

\* post.js CONSTANTS.oddLadderStepSize
oddLadderStepSize == 25

\* A percentage typed by the user, in units of 0.0001 (four decimals):
\* 502500 is "50.25".  ethers.parseUnits(x, 18) of it is value * 10^14, and
\* 10^14 is Base / 10^6 on the scale of the model.
parseUnits18(value) == BigIntMulDiv(value, Base, 10 ^ 6)

\* ethers.parseUnits((oddLadderStepSize / 100).toString(), 16): 0.25 * 10^16
LadderStep == BigIntMulDiv(oddLadderStepSize, Base, 10 ^ 6)

\* post.js checkOddsLadderValid
checkOddsLadderValid(odds) == odds % LadderStep = 0

\* post.js roundDownOddsToNearestStep: BigNumber toFixed(0, 3) rounds to
\* the floor
roundDownOddsToNearestStep(odds) == (odds \div LadderStep) * LadderStep

\* post.js processOdds
processOdds(percentageOdds) ==
  LET rawOdds == parseUnits18(percentageOdds)
  IN  IF checkOddsLadderValid(rawOdds) THEN rawOdds
      ELSE roundDownOddsToNearestStep(rawOdds)

\* what the user types at the odds prompt of placeOrder: a number with up
\* to four decimals, or something parseFloat makes NaN of
OneHundredPercent == 100 * 10 ^ 4
PercentInputs ==
  {[nan |-> TRUE, value |-> 0]}
    \cup {[nan |-> FALSE, value |-> v] :
            v \in {-50000, 0, 10, 25, 30, 501000, 502500, 502510,
                   OneHundredPercent - 1,
                   OneHundredPercent, OneHundredPercent + 25,
                   OneHundredPercent + OneHundredPercent \div 2}}

\* ethers.solidityPacked rejects a negative uint256
Packable(o) == o.totalBetSize >= 0 /\ o.percentageOdds >= 0

EncodeError == "INVALID_ARGUMENT"

\* post.js createOrder: the order object, for already processed odds
createOrder(stakeSize, percentageOdds, salt, now) ==
  [marketHash |-> "0x01f08881f4e3c8ab1503147cfd9967cb05b0cb63897dc395bbbb926165541f56",
   maker |-> "0xADb93842A9cEa59A11Fed9E3D9870D37eb2eC9Dd",
   totalBetSize |-> stakeSize * 10 ^ Decimals,
   percentageOdds |-> percentageOdds,
   baseToken |-> "0x6629Ce1Cf35Cc1329ebB4F63202F3f197b3F050B",
   apiExpiry |-> now + 3600,
   expiry |-> "2209006800",
   executor |-> "0x52adf738AAD93c31f798a30b2C74D658e1E9a562",
   isMakerBettingOutcomeOne |-> TRUE,
   salt |-> salt]

\* orders handed to signOrder / postOrder
NewOrders == {createOrder(1, p, salt, 1) : p \in FlowOdds, salt \in Salts}

\* bytes a value of a Solidity type takes in a packed encoding
PackedWidth(type) ==
  CASE type = "bytes32" -> 32
    [] type = "address" -> 20
    [] type = "uint256" -> 32
    [] type = "bool" -> 1

\* ethers.solidityPacked(types, values): the values side by side, each on
\* the width of its type, without padding
solidityPacked(types, values) ==
  [i \in 1 .. Len(types) |->
     [type |-> types[i], width |-> PackedWidth(types[i]), value |-> values[i]]]

\* mutant: every value on a 32-byte word, as the standard ABI encoding does
createOrderHashPadded(o) ==
  [keccak256 |->
     [i \in 1 .. 9 |->
        [type |-> <<"bytes32", "address", "uint256", "uint256", "uint256",
                    "uint256", "address", "address", "bool">>[i],
         width |-> 32,
         value |-> <<o.marketHash, o.baseToken, o.totalBetSize,
                     o.percentageOdds, o.expiry, o.salt, o.maker, o.executor,
                     o.isMakerBettingOutcomeOne>>[i]]]]

\* post.js createOrderHash: keccak256 of the packed values; the digest is
\* kept symbolic, as the packed input it is computed from
createOrderHash(o) ==
  [keccak256 |->
     solidityPacked(<<"bytes32", "address", "uint256", "uint256", "uint256",
                      "uint256", "address", "address", "bool">>,
                    <<o.marketHash, o.baseToken, o.totalBetSize,
                      o.percentageOdds, o.expiry, o.salt, o.maker, o.executor,
                      o.isMakerBettingOutcomeOne>>)]

\* an order as fetchActiveOrders returns it, the target of a fill; the
\* exchange identifies an order by the hash of its nine signed members
ActiveOrder(p) ==
  LET o == [marketHash |-> "0xmarketHash",
            baseToken |-> "0x6629Ce1Cf35Cc1329ebB4F63202F3f197b3F050B",
            totalBetSize |-> 1000000,
            percentageOdds |-> p,
            expiry |-> "2209006800",
            salt |-> 1,
            maker |-> "0x3C2eA50B33F9E7F62B842E0031cDFb5e507D7aA1",
            executor |-> "0x52adf738AAD93c31f798a30b2C74D658e1E9a562",
            isMakerBettingOutcomeOne |-> TRUE]
  IN  [f \in DOMAIN o \cup {"orderHash", "signature"} |->
         IF f = "orderHash" THEN createOrderHash(o)
         ELSE IF f = "signature" THEN "0xmakerSignature"
         ELSE o[f]]

ActiveOrders == {ActiveOrder(p) : p \in FlowOdds}

\* { ...order, signature }
WithSignature(o, signature) ==
  [f \in DOMAIN o \cup {"signature"} |->
     IF f = "signature" THEN signature ELSE o[f]]

\* fill.js createSigningPayload; fillSalt is the value generateFillSalt() drew
createSigningPayload(o, betAmount, fillSalt) ==
  LET fillAmount == calculateFillAmount(betAmount, o.percentageOdds)
  IN  IF fillAmount.kind = "throw" THEN fillAmount
      ELSE Return(
        [types |->
           [Details |-> <<"action", "market", "betting", "stake", "odds",
                          "returning", "fills">>,
            FillObject |-> <<"orders", "makerSigs", "takerAmounts", "fillSalt",
                             "beneficiary", "beneficiaryType", "cashOutTarget">>,
            Order |-> <<"marketHash", "baseToken", "totalBetSize",
                        "percentageOdds", "expiry", "salt", "maker", "executor",
                        "isMakerBettingOutcomeOne">>],
         primaryType |-> "Details",
         domain |-> [name |-> DOMAIN_NAME, version |-> DOMAIN_VERSION,
                     chainId |-> CHAIN_ID,
                     verifyingContract |-> EIP712_FILL_HASHER],
         message |->
           [action |-> "N/A", market |-> "N/A", betting |-> "N/A",
            stake |-> "N/A", odds |-> "N/A", returning |-> "N/A",
            fills |->
              [makerSigs |-> <<o.signature>>,
               orders |-> <<[marketHash |-> o.marketHash,
                             baseToken |-> o.baseToken,
                             totalBetSize |-> o.totalBetSize,
                             percentageOdds |-> o.percentageOdds,
                             expiry |-> o.expiry,
                             salt |-> o.salt,
                             maker |-> o.maker,
                             executor |-> o.executor,
                             isMakerBettingOutcomeOne |->
                               o.isMakerBettingOutcomeOne]>>,
               takerAmounts |-> <<fillAmount.val>>,
               fillSalt |-> fillSalt,
               beneficiary |-> ZeroAddress,
               beneficiaryType |-> 0,
               cashOutTarget |-> ZeroHash]],
         fillAmount |-> fillAmount.val,
         fillSalt |-> fillSalt])

\* cancel.js getCancelOrderEIP712Payload
getCancelOrderEIP712Payload(orderHashes, salt, timestamp, chainId) ==
  [types |-> [EIP712Domain |-> <<"name", "version", "chainId", "salt">>,
              Details |-> <<"orderHashes", "timestamp">>],
   primaryType |-> "Details",
   domain |-> [name |-> "CancelOrderV2SportX", version |-> "1.0",
               chainId |-> chainId, salt |-> salt],
   message |-> [orderHashes |-> orderHashes, timestamp |-> timestamp]]

\* mutant: a second salt is drawn for the payload
FillApiPayloadOwnSalt(o, signingPayload, signature) ==
  [orderHashes |-> <<o.orderHash>>,
   takerAmounts |-> <<signingPayload.fillAmount>>,
   taker |-> TAKER_ADDRESS,
   takerSig |-> signature,
   fillSalt |-> signingPayload.fillSalt + 1,
   action |-> "N/A", market |-> "N/A", betting |-> "N/A",
   stake |-> "N/A", odds |-> "N/A", returning |-> "N/A"]

\* the fill payload POSTed to /orders/fill
FillApiPayload(o, signingPayload, signature) ==
  [orderHashes |-> <<o.orderHash>>,
   takerAmounts |-> <<signingPayload.fillAmount>>,
   taker |-> TAKER_ADDRESS,
   takerSig |-> signature,
   fillSalt |-> signingPayload.fillSalt,
   action |-> "N/A", market |-> "N/A", betting |-> "N/A",
   stake |-> "N/A", odds |-> "N/A", returning |-> "N/A"]

\* mutant: the clock is read a second time for the payload
CancelApiPayloadClockReread(orderHashes, signature, salt, wallet, timestamp) ==
  [orderHashes |-> orderHashes, signature |-> signature, salt |-> salt,
   maker |-> wallet.address, timestamp |-> timestamp + 1]

\* the cancel payload: what createCancelOrderPayload returns and what is POSTed
CancelApiPayload(orderHashes, signature, salt, wallet, timestamp) ==
  [orderHashes |-> orderHashes, signature |-> signature, salt |-> salt,
   maker |-> wallet.address, timestamp |-> timestamp]

(***************************************************************************)
(* Signing flows: steps                                                    *)
(***************************************************************************)
\* functions whose catch block only logs (fill.js:267-272, cancel.js:196-198,
\* post.js:243-245);
\* every other catch block ends in `throw error`
SwallowingFns ==
  {"tutorial.fillOrder", "tutorial.cancelOrdersFromInput", "tutorial.placeOrder"}

\* the call ends: with a value
Finish(value) ==
  /\ pc' = "done"
  /\ outcome' = Return(value)

\* mutant: every catch block only logs
FailQuietly(fn, error) ==
  /\ pc' = "done"
  /\ outcome' = Return(Undefined)

\* the call ends: an error reaches the function's catch block
Fail(fn, error) ==
  /\ pc' = "done"
  /\ outcome' = IF fn \in SwallowingFns THEN Return(Undefined) ELSE Throw(error)

\* wallet.signMessage(data) / wallet.signTypedData(domain, types, message)
InvokeSigner(method, wallet, data) ==
  signCalls' = Append(signCalls, [method |-> method, wallet |-> wallet,
                                  data |-> data, result |-> "pending"])

SettleSigner(result) ==
  signCalls' = [signCalls EXCEPT ![Len(signCalls)].result = result]

\* fetch(url, {method: 'POST', body: JSON.stringify(body)})
Post(url, body) ==
  httpCalls' = Append(httpCalls, [url |-> url, body |-> body])

\* ethers encodes a uint256 member only if it is >= 0; signTypedData rejects
\* otherwise
Encodable(call_) ==
  call_.method = "signTypedData" /\ "fills" \in DOMAIN call_.data.message
    => \A i \in DOMAIN call_.data.message.fills.takerAmounts :
         call_.data.message.fills.takerAmounts[i] >= 0

\* mutant: a rejected sign call is made again
SignerRejectsAndRetries ==
  /\ pc = "signing"
  /\ signCalls' = Append([signCalls EXCEPT ![Len(signCalls)].result = "rejected"],
                         signCalls[Len(signCalls)])
  /\ UNCHANGED <<env, pc, call, frame, httpCalls, outcome, mathVars, wsVars>>

\* the wallet rejects the pending sign call: the await throws
SignerRejects ==
  /\ pc = "signing"
  /\ SettleSigner("rejected")
  /\ Fail(call.fn, SignerError)
  /\ UNCHANGED <<env, call, frame, httpCalls, mathVars, wsVars>>

\* the fetch promise rejects (network failure) or response.json() throws
FetchRejects ==
  /\ pc = "submitting"
  /\ Fail(call.fn, FetchError)
  /\ UNCHANGED <<env, call, frame, signCalls, httpCalls, mathVars, wsVars>>

\* the API answers; every function but the tutorial fillOrder throws unless
\* response.ok and data.status === 'success'
FetchResolves ==
  /\ pc = "submitting"
  /\ \E ok \in BOOLEAN, status \in {"success", "failure"} :
       IF call.fn = "tutorial.fillOrder"
       THEN Finish(Undefined)
       ELSE IF ~ok \/ status # "success"
            THEN Fail(call.fn, ApiError)
            ELSE IF call.fn \in {"tutorial.cancelOrdersFromInput",
                                 "tutorial.placeOrder"}
                 THEN Finish(Undefined)
                 ELSE Finish([status |-> status])
  /\ UNCHANGED <<env, call, frame, signCalls, httpCalls, mathVars, wsVars>>

\* fill.js fillOrder / standalone fillOrder, up to await wallet.signTypedData
FillOrder_Start ==
  /\ pc = "idle"
  /\ \E fn \in {"tutorial.fillOrder", "standalone.fillOrder"},
        o \in ActiveOrders, wallet \in WalletArgs, betAmount \in BetInputs,
        fillSalt \in Salts :
       LET signingPayload == createSigningPayload(o, betAmount, fillSalt)
       IN  /\ call' = [fn |-> fn, order |-> o, wallet |-> wallet,
                       betAmount |-> betAmount]
           /\ IF signingPayload.kind = "throw"
              THEN /\ Fail(fn, signingPayload.val)
                   /\ UNCHANGED <<frame, signCalls>>
              ELSE IF ~wallet.present
              THEN /\ Fail(fn, TypeError)
                   /\ UNCHANGED <<frame, signCalls>>
              ELSE /\ InvokeSigner("signTypedData", wallet,
                                   [domain |-> signingPayload.val.domain,
                                    types |-> signingPayload.val.types,
                                    message |-> signingPayload.val.message])
                   /\ frame' = [signingPayload |-> signingPayload.val]
                   /\ pc' = "signing"
                   /\ UNCHANGED outcome
  /\ UNCHANGED <<env, httpCalls, mathVars, wsVars>>

\* fillOrder resumes with the signature and POSTs the fill
FillOrder_Signed ==
  /\ pc = "signing"
  /\ call.fn \in {"tutorial.fillOrder", "standalone.fillOrder"}
  /\ Encodable(signCalls[Len(signCalls)])
  /\ SettleSigner("resolved")
  /\ Post("/orders/fill",
          FillApiPayload(call.order, frame.signingPayload,
                         Sig(call.wallet, frame.signingPayload.message)))
  /\ pc' = "submitting"
  /\ UNCHANGED <<env, call, frame, outcome, mathVars, wsVars>>

\* the body of post.js signOrder up to await wallet.signMessage, run on
\* behalf of fn
SignOrderBegin(fn, o) ==
  /\ call' = [fn |-> fn, order |-> o, wallet |-> EnvWallet]
  /\ IF ~env.PRIVATE_KEY
     THEN /\ Fail(fn, NoPrivateKey)
          /\ UNCHANGED <<frame, signCalls>>
     ELSE IF ~Packable(o)
     THEN /\ Fail(fn, EncodeError)
          /\ UNCHANGED <<frame, signCalls>>
     ELSE /\ InvokeSigner("signMessage", EnvWallet, createOrderHash(o))
          /\ frame' = [orderHash |-> createOrderHash(o)]
          /\ pc' = "signing"
          /\ UNCHANGED outcome

\* post.js signOrder, up to await wallet.signMessage
SignOrder_Start ==
  /\ pc = "idle"
  /\ \E o \in NewOrders : SignOrderBegin("tutorial.signOrder", o)
  /\ UNCHANGED <<env, httpCalls, mathVars, wsVars>>

\* post.js placeOrder: the prompts, processOdds, createOrder, then signOrder
PlaceOrder_Start ==
  /\ pc = "idle"
  /\ \E input \in PercentInputs, salt \in Salts, now \in Timestamps :
       IF input.nan
       THEN /\ call' = [fn |-> "tutorial.placeOrder", input |-> input]
            /\ Fail("tutorial.placeOrder", EncodeError)
            /\ UNCHANGED <<frame, signCalls>>
       ELSE SignOrderBegin("tutorial.placeOrder",
                           createOrder(1, processOdds(input.value), salt, now))
  /\ UNCHANGED <<env, httpCalls, mathVars, wsVars>>

\* mutant: the signature is stored into the order object that was passed in
SignOrder_SignedInPlace ==
  /\ pc = "signing"
  /\ call.fn \in {"tutorial.signOrder", "tutorial.placeOrder"}
  /\ SettleSigner("resolved")
  /\ LET signedOrder == WithSignature(call.order, Sig(call.wallet, frame.orderHash))
     IN  /\ call' = [call EXCEPT !.order = signedOrder]
         /\ IF call.fn = "tutorial.signOrder"
            THEN /\ Finish(signedOrder)
                 /\ UNCHANGED httpCalls
            ELSE /\ Post("/orders/new", [orders |-> <<signedOrder>>])
                 /\ pc' = "submitting"
                 /\ UNCHANGED outcome
  /\ UNCHANGED <<env, frame, mathVars, wsVars>>

\* signOrder resumes and returns { ...order, signature }; placeOrder goes
\* on to submitOrder
SignOrder_Signed ==
  /\ pc = "signing"
  /\ call.fn \in {"tutorial.signOrder", "tutorial.placeOrder"}
  /\ SettleSigner("resolved")
  /\ LET signedOrder == WithSignature(call.order, Sig(call.wallet, frame.orderHash))
     IN  IF call.fn = "tutorial.signOrder"
         THEN /\ Finish(signedOrder)
              /\ UNCHANGED httpCalls
         ELSE /\ Post("/orders/new", [orders |-> <<signedOrder>>])
              /\ pc' = "submitting"
              /\ UNCHANGED outcome
  /\ UNCHANGED <<env, call, frame, mathVars, wsVars>>

\* standalone postOrder, up to await wallet.signMessage
PostOrder_Start ==
  /\ pc = "idle"
  /\ \E o \in NewOrders, wallet \in WalletArgs :
       /\ call' = [fn |-> "standalone.postOrder", order |-> o, wallet |-> wallet]
       /\ IF ~wallet.present
          THEN /\ Fail("standalone.postOrder", TypeError)
               /\ UNCHANGED <<frame, signCalls>>
          ELSE /\ InvokeSigner("signMessage", wallet, createOrderHash(o))
               /\ frame' = [orderHash |-> createOrderHash(o)]
               /\ pc' = "signing"
               /\ UNCHANGED outcome
  /\ UNCHANGED <<env, httpCalls, mathVars, wsVars>>

\* postOrder resumes and POSTs { orders: [signedOrder] }
PostOrder_Signed ==
  /\ pc = "signing"
  /\ call.fn = "standalone.postOrder"
  /\ SettleSigner("resolved")
  /\ Post("/orders/new",
          [orders |-> <<WithSignature(call.order,
                                      Sig(call.wallet, frame.orderHash))>>])
  /\ pc' = "submitting"
  /\ UNCHANGED <<env, call, frame, outcome, mathVars, wsVars>>

\* the body of cancel.js createCancelOrderPayload up to await
\* wallet.signTypedData, run on behalf of fn
CancelPayloadBegin(fn, orderHashes) ==
  \E salt \in Salts, timestamp \in Timestamps :
    LET payload == getCancelOrderEIP712Payload(orderHashes, salt, timestamp,
                                               CHAIN_ID)
    IN  /\ call' = [fn |-> fn, orderHashes |-> orderHashes, wallet |-> EnvWallet]
        /\ IF ~env.PRIVATE_KEY
           THEN /\ Fail(fn, NoPrivateKey)
                /\ UNCHANGED <<frame, signCalls>>
           ELSE /\ InvokeSigner("signTypedData", EnvWallet,
                                [domain |-> payload.domain,
                                 types |-> [Details |-> payload.types.Details],
                                 message |-> payload.message])
                /\ frame' = [payload |-> payload, salt |-> salt,
                             timestamp |-> timestamp]
                /\ pc' = "signing"
                /\ UNCHANGED outcome

\* cancel.js createCancelOrderPayload, and cancelOrders which awaits it first
CreateCancelOrderPayload_Start ==
  /\ pc = "idle"
  /\ \E fn \in {"tutorial.createCancelOrderPayload", "tutorial.cancelOrders"},
        orderHashes \in HashLists :
       CancelPayloadBegin(fn, orderHashes)
  /\ UNCHANGED <<env, httpCalls, mathVars, wsVars>>

\* cancel.js cancelOrdersFromInput: parses the line typed by the user
CancelOrdersFromInput_Start ==
  /\ pc = "idle"
  /\ \E orderHashes \in InputLists :
       IF Len(orderHashes) = 0 \/ orderHashes[1] = ""
       THEN /\ call' = [fn |-> "tutorial.cancelOrdersFromInput",
                        orderHashes |-> orderHashes, wallet |-> EnvWallet]
            /\ Fail("tutorial.cancelOrdersFromInput", NoOrderHashes)
            /\ UNCHANGED <<frame, signCalls>>
       ELSE CancelPayloadBegin("tutorial.cancelOrdersFromInput", orderHashes)
  /\ UNCHANGED <<env, httpCalls, mathVars, wsVars>>

\* standalone cancelOrders, up to await wallet.signTypedData
CancelOrders_Start ==
  /\ pc = "idle"
  /\ \E orderHashes \in HashLists, wallet \in WalletArgs, salt \in Salts,
        timestamp \in Timestamps :
       LET payload == getCancelOrderEIP712Payload(orderHashes, salt, timestamp,
                                                  CHAIN_ID)
       IN  /\ call' = [fn |-> "standalone.cancelOrders",
                       orderHashes |-> orderHashes, wallet |-> wallet]
           /\ IF ~wallet.present
              THEN /\ Fail("standalone.cancelOrders", TypeError)
                   /\ UNCHANGED <<frame, signCalls>>
              ELSE /\ InvokeSigner("signTypedData", wallet,
                                   [domain |-> payload.domain,
                                    types |-> [Details |-> payload.types.Details],
                                    message |-> payload.message])
                   /\ frame' = [payload |-> payload, salt |-> salt,
                                timestamp |-> timestamp]
                   /\ pc' = "signing"
                   /\ UNCHANGED outcome
  /\ UNCHANGED <<env, httpCalls, mathVars, wsVars>>

\* a cancellation resumes with the signature: createCancelOrderPayload returns
\* the payload, the cancelOrders functions POST it
Cancel_Signed ==
  /\ pc = "signing"
  /\ call.fn \in {"tutorial.createCancelOrderPayload", "tutorial.cancelOrders",
                  "tutorial.cancelOrdersFromInput", "standalone.cancelOrders"}
  /\ SettleSigner("resolved")
  /\ LET apiPayload ==
           CancelApiPayload(call.orderHashes,
                            Sig(call.wallet, frame.payload.message),
                            frame.salt, call.wallet, frame.timestamp)
     IN  IF call.fn = "tutorial.createCancelOrderPayload"
         THEN /\ Finish(apiPayload)
              /\ UNCHANGED httpCalls
         ELSE /\ Post("/orders/cancel/v2?chainVersion=SXR", apiPayload)
              /\ pc' = "submitting"
              /\ UNCHANGED outcome
  /\ UNCHANGED <<env, call, frame, mathVars, wsVars>>

\* the odds functions at rest (while the flows are exercised)
MathIdle ==
  /\ order = [totalBetSize |-> 0, fillAmount |-> 0, percentageOdds |-> 0]
  /\ takerBetAmount = 0
  /\ otherOdds = 0
  /\ fillAmountOut = Unset
  /\ payoutOut = Unset
  /\ takerOddsOut = Unset
  /\ otherOddsOut = Unset
  /\ remainingOut = Unset

Init ==
  /\ env \in [PRIVATE_KEY : BOOLEAN]
  /\ pc = "idle"
  /\ call = NoCall
  /\ frame = NoFrame
  /\ signCalls = <<>>
  /\ httpCalls = <<>>
  /\ outcome = Unset
  /\ WsIdle
  /\ MathIdle

Next ==
  \/ FillOrder_Start
  \/ FillOrder_Signed
  \/ SignOrder_Start
  \/ PlaceOrder_Start
  \/ SignOrder_Signed
  \/ PostOrder_Start
  \/ PostOrder_Signed
  \/ CreateCancelOrderPayload_Start
  \/ CancelOrdersFromInput_Start
  \/ CancelOrders_Start
  \/ Cancel_Signed
  \/ SignerRejects
  \/ FetchResolves
  \/ FetchRejects

Spec == Init /\ [][Next]_vars

(***************************************************************************)
(* Properties of the signing flows                                         *)
(***************************************************************************)
\* C4: in the fill flow no signTypedData call carries a fill computed from
\* odds outside (0, Base): an error is raised before the signer is invoked.
C4_NoFillSignedOverInvalidOdds ==
  \A i \in DOMAIN signCalls :
    (/\ signCalls[i].method = "signTypedData"
     /\ "fills" \in DOMAIN signCalls[i].data.message)
      => ValidOdds(signCalls[i].data.message.fills.orders[1].percentageOdds)

\* C5: in every signing flow, once the wallet's sign call has thrown, the
\* flow ends by throwing that same error to its caller, and the signer is
\* not invoked a second time.
C5_SignerFailureReachesCaller ==
  (\E i \in DOMAIN signCalls : signCalls[i].result = "rejected")
    => /\ pc = "done"
       /\ outcome.kind = "throw"
       /\ outcome.val = SignerError
       /\ Len(signCalls) = 1

\* C6: createCancelOrderPayload (tutorial) and cancelOrders (standalone)
\* called with an empty orderHashes list fail without invoking the signer and
\* without producing a payload.
C6_EmptyCancelFailsBeforeSigning ==
  (/\ call.fn \in {"tutorial.createCancelOrderPayload", "standalone.cancelOrders"}
   /\ call.orderHashes = <<>>)
    => /\ signCalls = <<>>
       /\ httpCalls = <<>>
       /\ outcome.kind # "return"
       /\ (pc = "done" => outcome.kind = "throw")

(***************************************************************************)
(* Properties of the order hash                                            *)
(***************************************************************************)
RECURSIVE PackedLength(_)
PackedLength(packed) ==
  IF packed = <<>> THEN 0
  ELSE packed[1].width + PackedLength(Tail(packed))

\* C12: createOrderHash hashes nine tightly packed fields, marketHash (32
\* bytes), baseToken (20), totalBetSize (32), percentageOdds (32), expiry
\* (32), salt (32), maker (20), executor (20), isMakerBettingOutcomeOne (1),
\* 221 bytes in all with the boolean as the last byte; each slot holds the
\* order field of that name, and apiExpiry and signature are left out.
C12_OrderHashPacksNineFields ==
  \A i \in DOMAIN signCalls :
    signCalls[i].method = "signMessage" =>
      LET packed == signCalls[i].data.keccak256
          o == call.order
      IN  /\ Len(packed) = 9
          /\ [j \in 1 .. 9 |-> packed[j].type]
               = <<"bytes32", "address", "uint256", "uint256", "uint256",
                   "uint256", "address", "address", "bool">>
          /\ [j \in 1 .. 9 |-> packed[j].width]
               = <<32, 20, 32, 32, 32, 32, 20, 20, 1>>
          /\ PackedLength(packed) = 221
          /\ packed[1].value = o.marketHash
          /\ packed[2].value = o.baseToken
          /\ packed[3].value = o.totalBetSize
          /\ packed[4].value = o.percentageOdds
          /\ packed[5].value = o.expiry
          /\ packed[6].value = o.salt
          /\ packed[7].value = o.maker
          /\ packed[8].value = o.executor
          /\ packed[9].value = o.isMakerBettingOutcomeOne

C12_Witness ==
  /\ call.fn \in {"tutorial.signOrder", "standalone.postOrder"}
  /\ Len(signCalls) = 1
  /\ signCalls[1].method = "signMessage"
  /\ signCalls[1].result = "resolved"
  /\ "apiExpiry" \in DOMAIN call.order

(***************************************************************************)
(* Properties of the fill typed data                                       *)
(***************************************************************************)
\* the signTypedData calls of the fill flow
FillSignCalls ==
  {i \in DOMAIN signCalls :
     /\ signCalls[i].method = "signTypedData"
     /\ "fills" \in DOMAIN signCalls[i].data.message}

\* the unused members of a signed fill message hold their sentinels: the
\* zero address, 0, the zero 32-byte value, and "N/A" in the six strings
SentinelsSet(message) ==
  /\ message.fills.beneficiary = "0x0000000000000000000000000000000000000000"
  /\ message.fills.beneficiaryType = 0
  /\ message.fills.cashOutTarget
       = "0x0000000000000000000000000000000000000000000000000000000000000000"
  /\ \A f \in {"action", "market", "betting", "stake", "odds", "returning"} :
       message[f] = "N/A"

\* C13: the FillObject type of the fill flow declares, in this order, the
\* maker signatures, the orders, the taker amounts, fillSalt, beneficiary,
\* beneficiaryType, cashOutTarget; the message holds the sentinels.
C13_FillObjectMakerSigsFirst ==
  \A i \in FillSignCalls :
    /\ signCalls[i].data.types.FillObject
         = <<"makerSigs", "orders", "takerAmounts", "fillSalt", "beneficiary",
             "beneficiaryType", "cashOutTarget">>
    /\ SentinelsSet(signCalls[i].data.message)

\* C13, amended: the FillObject type declares the orders first and the maker
\* signatures second, then the taker amounts, fillSalt, beneficiary,
\* beneficiaryType, cashOutTarget; the message holds the sentinels.
C13_FillObjectOrdersFirst ==
  \A i \in FillSignCalls :
    /\ signCalls[i].data.types.FillObject
         = <<"orders", "makerSigs", "takerAmounts", "fillSalt", "beneficiary",
             "beneficiaryType", "cashOutTarget">>
    /\ SentinelsSet(signCalls[i].data.message)

C13_Witness ==
  /\ call.fn \in {"tutorial.fillOrder", "standalone.fillOrder"}
  /\ FillSignCalls # {}
  /\ pc = "submitting"

(***************************************************************************)
(* Properties of order creation                                            *)
(***************************************************************************)
\* C14: in the order-creation flow (processOdds, createOrder, signOrder), for
\* every user input, no order with percentageOdds <= 0 or >= Base is hashed
\* by createOrderHash or passed to wallet.signMessage.
C14_NoOrderSignedOverInvalidOdds ==
  call.fn = "tutorial.placeOrder" =>
    \A i \in DOMAIN signCalls :
      signCalls[i].method = "signMessage" =>
        ValidOdds(signCalls[i].data.keccak256[4].value)

\* one step of the 0.25% odds ladder on the scale of Base: 2.5 * 10^17 of 10^20
QuarterPercentStep == Base \div 400

\* C24: for every percentage input x, the odds r that processOdds(x) returns
\* (here: the odds placeOrder puts into the order) are a multiple of 0.25% of
\* Base; r equals the raw odds when those are on that ladder, and otherwise
\* r is the largest ladder value not exceeding them (raw - r is less than
\* one step); checkOddsLadderValid(r) is true.
C24_ProcessedOddsOnQuarterPercentLadder ==
  (call.fn = "tutorial.placeOrder" /\ "order" \in DOMAIN call) =>
    LET r == call.order.percentageOdds
    IN  /\ r % QuarterPercentStep = 0
        /\ checkOddsLadderValid(r)
        /\ \A input \in PercentInputs :
             (~input.nan /\ processOdds(input.value) = r) =>
               LET rawOdds == parseUnits18(input.value)
               IN  /\ rawOdds % QuarterPercentStep = 0 => r = rawOdds
                   /\ r <= rawOdds
                   /\ rawOdds - r < QuarterPercentStep

\* an order-creation call made without a signer: signOrder with no
\* PRIVATE_KEY in the environment, postOrder with no wallet argument
NoSignerConfigured ==
  \/ call.fn = "tutorial.signOrder" /\ ~env.PRIVATE_KEY
  \/ call.fn = "standalone.postOrder" /\ ~call.wallet.present

\* C15: order-creation signing without a configured signer fails: no
\* signature is produced, no HTTP submission is attempted, and the error
\* reaches the caller.
C15_NoSignerFails ==
  NoSignerConfigured =>
    /\ pc = "done"
    /\ outcome.kind = "throw"
    /\ outcome.val = (IF call.fn = "tutorial.signOrder" THEN NoPrivateKey
                      ELSE TypeError)
    /\ signCalls = <<>>
    /\ httpCalls = <<>>

C15_Witness ==
  /\ call.fn = "standalone.postOrder"
  /\ ~call.wallet.present
  /\ outcome.kind = "throw"

(***************************************************************************)
(* Properties of every signing flow                                        *)
(***************************************************************************)
\* C16: a call of a signing flow invokes the wallet's sign operation at most
\* once and submits over HTTP at most once; after a signer failure nothing
\* is submitted, and after an API failure nothing is signed or sent again.
C16_SingleShot ==
  /\ Len(signCalls) <= 1
  /\ Len(httpCalls) <= 1
  /\ (\E i \in DOMAIN signCalls : signCalls[i].result = "rejected")
       => httpCalls = <<>> /\ pc = "done"
  /\ httpCalls # <<>>
       => Len(signCalls) = 1 /\ signCalls[1].result = "resolved"

C16_Witness ==
  /\ pc = "done"
  /\ outcome.kind = "throw"
  /\ outcome.val = ApiError
  /\ Len(signCalls) = 1
  /\ Len(httpCalls) = 1

\* signed is a record with the fields of o, each with o's value, and a
\* signature in addition
IsOrderPlusSignature(signed, o) ==
  /\ "signature" \notin DOMAIN o
  /\ DOMAIN signed = DOMAIN o \cup {"signature"}
  /\ \A f \in DOMAIN o : signed[f] = o[f]

SignedOrderIsCopy ==
  /\ (call.fn = "tutorial.signOrder" /\ outcome.kind = "return")
       => IsOrderPlusSignature(outcome.val, call.order)
  /\ (call.fn \in {"standalone.postOrder", "tutorial.placeOrder"}
        /\ httpCalls # <<>>)
       => IsOrderPlusSignature(httpCalls[1].body.orders[1], call.order)

\* C17: signing never changes the order it is given: no step of signOrder,
\* postOrder or fillOrder, ending in a return or a throw, changes a field of
\* the order passed in, and the signed order is a separate record, the input
\* plus the signature field only.
C17_SigningLeavesOrderUntouched ==
  /\ [][(pc \in {"signing", "submitting"}) => (call' = call)]_vars
  /\ []SignedOrderIsCopy

C17_Witness ==
  /\ call.fn = "tutorial.signOrder"
  /\ outcome.kind = "return"
  /\ "signature" \in DOMAIN outcome.val

(***************************************************************************)
(* Properties of what is submitted                                         *)
(***************************************************************************)
\* the signer address a submitted body declares, and the address of the
\* wallet that produced the signature it carries
DeclaredSigner(request) ==
  IF request.url = "/orders/fill" THEN request.body.taker
  ELSE IF request.url = "/orders/new" THEN request.body.orders[1].maker
  ELSE request.body.maker

ActualSigner(request) ==
  IF request.url = "/orders/fill" THEN request.body.takerSig.by
  ELSE IF request.url = "/orders/new" THEN request.body.orders[1].signature.by
  ELSE request.body.signature.by

\* the requests of a kind that have been submitted
Submitted(url) == {i \in DOMAIN httpCalls : httpCalls[i].url = url}

CancelSignCalls ==
  {j \in DOMAIN signCalls :
     /\ signCalls[j].method = "signTypedData"
     /\ "orderHashes" \in DOMAIN signCalls[j].data.message}

\* the cancel payloads produced: POSTed by the cancelOrders functions,
\* returned by createCancelOrderPayload
CancelPayloads ==
  {httpCalls[i].body : i \in Submitted("/orders/cancel/v2?chainVersion=SXR")}
    \cup (IF call.fn = "tutorial.createCancelOrderPayload"
             /\ outcome.kind = "return"
          THEN {outcome.val} ELSE {})

\* C27: for every cancellation the payload carries exactly what was signed:
\* its salt is the salt of the typed-data domain, its timestamp and its
\* orderHashes (in the same order) are those of the message; the domain is
\* {name "CancelOrderV2SportX", version "1.0", chainId, salt} with no
\* verifyingContract; one request makes one sign call with one salt, however
\* many order hashes it contains.
C27_CancelSubmitsWhatWasSigned ==
  /\ Cardinality(CancelSignCalls) <= 1
  /\ \A payload \in CancelPayloads :
       \E j \in CancelSignCalls :
         LET data == signCalls[j].data
         IN  /\ signCalls[j].result = "resolved"
             /\ payload.signature = Sig(signCalls[j].wallet, data.message)
             /\ payload.salt = data.domain.salt
             /\ payload.salt \in Salts
             /\ payload.timestamp = data.message.timestamp
             /\ payload.orderHashes = data.message.orderHashes
             /\ DOMAIN data.domain = {"name", "version", "chainId", "salt"}
             /\ data.domain.name = "CancelOrderV2SportX"
             /\ data.domain.version = "1.0"
             /\ data.domain.chainId = CHAIN_ID

\* a cancellation of two different orders has been submitted
C27_Witness ==
  \E payload \in CancelPayloads :
    /\ Len(payload.orderHashes) = 2
    /\ payload.orderHashes[1] # payload.orderHashes[2]
    /\ httpCalls # <<>>

\* C25: in every submission payload the declared signer address is the
\* address of the wallet that produced the signature: taker of a fill,
\* maker of a new order, maker of a cancellation.
C25_DeclaredSignerIsSigningWallet ==
  \A i \in DOMAIN httpCalls :
    DeclaredSigner(httpCalls[i]) = ActualSigner(httpCalls[i])

(***************************************************************************)
(* Reading from the API: the client's get, the tutorial services built on  *)
(* it, and fetchActiveOrders                                               *)
(***************************************************************************)
\* bounds of the API responses
MaxItems == 2
MaxSportId == 2

ReferenceError == "ReferenceError"

\* the days, counted from now, on which a listed fixture starts: before now,
\* within the next seven days (two of them), later
StartDays == {-1, 2, 5, 9}

\* an entry of a list the API returns
Entries == [sportId : 1 .. MaxSportId, startDate : StartDays]
EntryLists == UNION {[1 .. n -> Entries] : n \in 0 .. MaxItems}

\* a JSON value in the data member of a response: absent, an array, or an
\* object holding an array under one key
NoValue == [shape |-> "undefined", key |-> "", items |-> <<>>]
ArrayOf(items) == [shape |-> "array", key |-> "", items |-> items]
ObjectOf(key, items) == [shape |-> "object", key |-> key, items |-> items]
EmptyArray == ArrayOf(<<>>)
Null == [shape |-> "null", key |-> "", items |-> <<>>]

Payloads ==
  {NoValue} \cup {ArrayOf(l) : l \in EntryLists}
    \cup {ObjectOf(k, l) : k \in {"markets", "trades"}, l \in EntryLists}

\* what the HTTP request comes to: it fails, or it delivers a body, which
\* may be unparsable (json false) and otherwise holds status and data
RequestFailed == [failed |-> TRUE, json |-> FALSE, status |-> "", data |-> NoValue]
Responses ==
  {RequestFailed}
    \cup [failed : {FALSE}, json : {FALSE}, status : {""}, data : {NoValue}]
    \cup [failed : {FALSE}, json : {TRUE}, status : {"success", "failure"},
          data : Payloads]

\* JavaScript truthiness of a JSON value: arrays and objects are truthy
Truthy(v) == v.shape \in {"array", "object"}

\* client.js get, from the await on: response.data.data on success (undefined
\* when the body is no JSON object); when axios rejects, the catch block
\* evaluates response?.data?.data, but the name response is a const of the
\* try block and out of scope there: a ReferenceError is thrown
get(response) ==
  IF response.failed THEN Throw(ReferenceError)
  ELSE IF ~response.json THEN Return(NoValue)
  ELSE Return(response.data)

\* Array.prototype.sort by startDate ascending (stable)
RECURSIVE InsertByStart(_, _)
InsertByStart(sorted, x) ==
  IF sorted = <<>> THEN <<x>>
  ELSE IF x.startDate < Head(sorted).startDate THEN <<x>> \o sorted
       ELSE <<Head(sorted)>> \o InsertByStart(Tail(sorted), x)

RECURSIVE SortByStart(_)
SortByStart(items) ==
  IF items = <<>> THEN <<>>
  ELSE InsertByStart(SortByStart(SubSeq(items, 1, Len(items) - 1)),
                     items[Len(items)])

\* x || []
OrEmpty(v) == IF Truthy(v) THEN v ELSE EmptyArray

\* result?.key || []
MemberOrEmpty(v, key) ==
  IF v.shape = "object" /\ v.key = key THEN ArrayOf(v.items) ELSE EmptyArray

\* eventService.js, orderService.js, tradeService.js: what a service makes
\* of the outcome of its apiClient.get call; a throw of get passes through
\* the await
fetchSports(got) ==
  IF got.kind = "throw" THEN got ELSE Return(OrEmpty(got.val))

fetchLeagues(got, sportId) ==
  IF got.kind = "throw" THEN got
  ELSE IF ~Truthy(got.val) THEN Return(EmptyArray)
  ELSE IF got.val.shape # "array" THEN Throw(TypeError)
  ELSE LET OfSport(league) == league.sportId = sportId
       IN  Return(ArrayOf(SelectSeq(got.val.items, OfSport)))

fetchFixtures(got) ==
  IF got.kind = "throw" THEN got
  ELSE IF ~Truthy(got.val) THEN Return(EmptyArray)
  ELSE IF got.val.shape # "array" THEN Throw(TypeError)
  ELSE LET InNextSevenDays(fixture) ==
             fixture.startDate >= 0 /\ fixture.startDate <= 7
       IN  Return(ArrayOf(SortByStart(SelectSeq(got.val.items, InNextSevenDays))))

fetchMarkets(got) ==
  IF got.kind = "throw" THEN got ELSE Return(MemberOrEmpty(got.val, "markets"))

fetchOrders(got) ==
  IF got.kind = "throw" THEN got ELSE Return(OrEmpty(got.val))

fetchTrades(got) ==
  IF got.kind = "throw" THEN got ELSE Return(MemberOrEmpty(got.val, "trades"))

\* fill.js fetchActiveOrders, from the await on: every error ends in the
\* catch block, which returns []
fetchActiveOrders(response) ==
  IF response.failed \/ ~response.json THEN Return(EmptyArray)
  ELSE IF response.status # "success" THEN Return(EmptyArray)
  ELSE Return(response.data)

\* the functions that read, and the endpoint each requests
GetFns == {"client.get", "utils.get"}
ServiceFns == {"fetchSports", "fetchLeagues", "fetchFixtures", "fetchMarkets",
               "fetchOrders", "fetchTrades"}
ActiveOrdersFns == {"tutorial.fetchActiveOrders", "standalone.fetchActiveOrders"}

Endpoint(fn) ==
  CASE fn = "fetchSports" -> "/sports"
    [] fn = "fetchLeagues" -> "/leagues/active"
    [] fn = "fetchFixtures" -> "/fixture/active"
    [] fn = "fetchMarkets" -> "/markets/active"
    [] fn \in {"fetchOrders", "client.get", "utils.get"} -> "/orders"
    [] fn = "fetchTrades" -> "/trades"
    [] fn \in ActiveOrdersFns -> "/orders?maker=&chainVersion=SXR"

\* a reading function is called and awaits its HTTP request
Read_Start ==
  /\ pc = "idle"
  /\ \E fn \in GetFns \cup ServiceFns \cup ActiveOrdersFns,
        sportId \in 1 .. MaxSportId :
       /\ fn # "fetchLeagues" => sportId = 1
       /\ call' = [fn |-> fn, sportId |-> sportId]
       /\ httpCalls' = Append(httpCalls, [url |-> Endpoint(fn), method |-> "GET"])
  /\ pc' = "fetching"
  /\ UNCHANGED <<env, frame, signCalls, outcome, mathVars, wsVars>>

\* the request settles and the function runs to its end
Read_Settles ==
  /\ pc = "fetching"
  /\ \E response \in Responses :
       /\ frame' = [response |-> response]
       /\ outcome' =
            CASE call.fn \in GetFns -> get(response)
              [] call.fn = "fetchSports" -> fetchSports(get(response))
              [] call.fn = "fetchLeagues" -> fetchLeagues(get(response), call.sportId)
              [] call.fn = "fetchFixtures" -> fetchFixtures(get(response))
              [] call.fn = "fetchMarkets" -> fetchMarkets(get(response))
              [] call.fn = "fetchOrders" -> fetchOrders(get(response))
              [] call.fn = "fetchTrades" -> fetchTrades(get(response))
              [] call.fn \in ActiveOrdersFns -> fetchActiveOrders(response)
  /\ pc' = "done"
  /\ UNCHANGED <<env, call, signCalls, httpCalls, mathVars, wsVars>>

ReadInit == FlowIdle /\ MathIdle

ReadNext == Read_Start \/ Read_Settles

ReadSpec == ReadInit /\ [][ReadNext]_vars

\* C18: when the HTTP request fails, get does not throw but returns [] or
\* null, and fetchSports, fetchLeagues, fetchFixtures, fetchMarkets,
\* fetchOrders and fetchTrades return an empty list.
C18_GetFailureGivesEmpty ==
  (pc = "done" /\ frame.response.failed) =>
    /\ call.fn \in GetFns =>
         outcome.kind = "return" /\ outcome.val \in {EmptyArray, Null}
    /\ call.fn \in ServiceFns =>
         outcome.kind = "return" /\ outcome.val = EmptyArray

\* C19: fetchActiveOrders throws, rather than returning a value, when the
\* request fails or the response status is not 'success'.
C19_FetchActiveOrdersThrows ==
  (/\ pc = "done"
   /\ call.fn \in ActiveOrdersFns
   /\ (frame.response.failed \/ ~frame.response.json
         \/ frame.response.status # "success"))
    => outcome.kind = "throw"

(***************************************************************************)
(* The websocket client: values                                            *)
(***************************************************************************)
\* bounds of the websocket traffic: distinct orders, entries in a message,
\* order updates received in all
MaxOrderId == 2
MaxBatch == 2
MaxHistory == 2

\* an element of message.data: an array of 14 values (an order update), an
\* array that is too short, or something that is no array
OrderArray(id, length) ==
  [isArray |-> TRUE, fields |-> [i \in 1 .. length |-> IF i = 1 THEN id ELSE 100 + i]]
NotAnArray == [isArray |-> FALSE, fields |-> <<>>]
UpdateEntries ==
  {OrderArray(id, 14) : id \in 1 .. MaxOrderId} \cup {OrderArray(1, 13), NotAnArray}

\* message.data: an array of entries, or something that is no array
UpdateBatches ==
  {[isArray |-> FALSE, items |-> <<>>]}
    \cup {[isArray |-> TRUE, items |-> l] :
            l \in UNION {[1 .. n -> UpdateEntries] : n \in 0 .. MaxBatch}}

\* the test of processOrderBookUpdates: Array.isArray(order) && order.length >= 14
IsOrderUpdate(entry) == entry.isArray /\ Len(entry.fields) >= 14

\* the formattedOrder object built from the positions of the array (its
\* member received, the time of arrival, is left out)
formattedOrder(entry) ==
  [orderHash |-> entry.fields[1], status |-> entry.fields[2],
   fillAmount |-> entry.fields[3], maker |-> entry.fields[4],
   totalBetSize |-> entry.fields[5], percentageOdds |-> entry.fields[6],
   expiry |-> entry.fields[7], apiExpiry |-> entry.fields[8],
   salt |-> entry.fields[9], isMakerBettingOutcomeOne |-> entry.fields[10],
   signature |-> entry.fields[11], updateTime |-> entry.fields[12],
   chainVersion |-> entry.fields[13], sportXeventId |-> entry.fields[14]]

\* mutant: the loop ends at the first invalid entry (break for continue)
RECURSIVE FormattedOrdersUntilInvalid(_)
FormattedOrdersUntilInvalid(items) ==
  IF items = <<>> THEN <<>>
  ELSE IF IsOrderUpdate(Head(items))
       THEN <<formattedOrder(Head(items))>>
              \o FormattedOrdersUntilInvalid(Tail(items))
       ELSE <<>>

\* the orders processOrderBookUpdates pushes for one message, in order
RECURSIVE FormattedOrders(_)
FormattedOrders(items) ==
  IF items = <<>> THEN <<>>
  ELSE IF IsOrderUpdate(Head(items))
       THEN <<formattedOrder(Head(items))>> \o FormattedOrders(Tail(items))
       ELSE FormattedOrders(Tail(items))

\* Map.prototype.get(key) || []
HistoryOf(history, marketHash) ==
  IF marketHash \in DOMAIN history THEN history[marketHash] ELSE <<>>

\* Map.prototype.set(key, value)
MapSet(map, key, value) ==
  [k \in DOMAIN map \cup {key} |-> IF k = key THEN value ELSE map[k]]

\* websocket/index.js processOrderBookUpdates: the history map afterwards
processOrderBookUpdates(history, marketHash, updates) ==
  IF ~updates.isArray THEN history
  ELSE MapSet(history, marketHash,
              HistoryOf(history, marketHash) \o FormattedOrders(updates.items))

\* and the events it emits
OrderBookUpdateEvents(marketHash, updates) ==
  IF ~updates.isArray THEN <<>>
  ELSE [i \in 1 .. Len(FormattedOrders(updates.items)) |->
          [event |-> "orderBookUpdate", market |-> marketHash,
           order |-> FormattedOrders(updates.items)[i]]]

\* websocket/index.js getSubscribedMarkets
getSubscribedMarkets == activeChannels

\* websocket/index.js getAllOrderBookHistory
getAllOrderBookHistory == orderBookHistory

\* Map.prototype.has on activeChannels
HasChannel(marketHash) == \E i \in DOMAIN activeChannels : activeChannels[i] = marketHash

\* position of a key of activeChannels (0 if absent)
PositionOf(marketHash) ==
  IF HasChannel(marketHash)
  THEN CHOOSE i \in DOMAIN activeChannels : activeChannels[i] = marketHash
  ELSE 0

\* Map.prototype.delete on activeChannels
WithoutChannel(marketHash) ==
  LET Other(m) == m # marketHash IN SelectSeq(activeChannels, Other)

(***************************************************************************)
(* The websocket client: steps                                             *)
(***************************************************************************)
\* initialize(): creates the Ably client, unless the API key is missing
Initialize ==
  /\ \E hasApiKey \in BOOLEAN : realtime' = (realtime \/ hasApiKey)
  /\ UNCHANGED <<isConnected, activeChannels, orderBookHistory, emitted,
                 listeners, tasks, mathVars, flowVars>>

\* the handlers of the connection events 'connected', 'failed', 'disconnected'
ConnectionEvent ==
  /\ realtime
  /\ \E event \in {"connected", "failed", "disconnected"} :
       isConnected' = (event = "connected")
  /\ UNCHANGED <<realtime, activeChannels, orderBookHistory, emitted,
                 listeners, tasks, mathVars, flowVars>>

Returned(marketHash, value) ==
  [tasks EXCEPT !.last[marketHash] = value]

\* disconnect() is suspended at one of its awaits
DisconnectSuspended == tasks.disc.pc \in {"unsubscribing", "closing"}

\* a subscribeToMarket call returns
SubscribeReturned(marketHash, value) ==
  [Returned(marketHash, value) EXCEPT
     !.disc.overlap = IF DisconnectSuspended THEN @ \cup {marketHash} ELSE @]

\* subscribeToMarket(marketHash): it contains no await and runs in one step;
\* channels.get / channel.subscribe may throw
SubscribeToMarket ==
  /\ \E marketHash \in Markets, throws \in BOOLEAN :
       IF ~isConnected
       THEN /\ tasks' = SubscribeReturned(marketHash, "subscribe: false")
            /\ UNCHANGED <<activeChannels, orderBookHistory, listeners>>
       ELSE IF HasChannel(marketHash)
       THEN /\ tasks' = SubscribeReturned(marketHash, "subscribe: true")
            /\ UNCHANGED <<activeChannels, orderBookHistory, listeners>>
       ELSE /\ orderBookHistory' =
                 IF marketHash \in DOMAIN orderBookHistory THEN orderBookHistory
                 ELSE MapSet(orderBookHistory, marketHash, <<>>)
            /\ IF throws
               THEN /\ tasks' = SubscribeReturned(marketHash, "subscribe: false")
                    /\ UNCHANGED <<activeChannels, listeners>>
               ELSE /\ listeners' = [listeners EXCEPT ![marketHash] = @ + 1]
                    /\ activeChannels' = Append(activeChannels, marketHash)
                    /\ tasks' = SubscribeReturned(marketHash, "subscribe: true")
  /\ UNCHANGED <<realtime, isConnected, emitted, mathVars, flowVars>>

\* Ably delivers a message on a market's channel: every callback subscribed
\* on it runs processOrderBookUpdates
DeliverMessage ==
  /\ \E marketHash \in Markets, updates \in UpdateBatches :
       /\ listeners[marketHash] > 0
       /\ Len(emitted) + Len(FormattedOrders(updates.items)) <= MaxHistory
       /\ orderBookHistory' =
            processOrderBookUpdates(orderBookHistory, marketHash, updates)
       /\ emitted' = emitted \o OrderBookUpdateEvents(marketHash, updates)
  /\ UNCHANGED <<realtime, isConnected, activeChannels, listeners, tasks,
                 mathVars, flowVars>>

\* unsubscribeFromMarket(marketHash) up to await channel.unsubscribe(), which
\* removes the channel's callbacks, or fails; owner is who awaits the call
UnsubscribeBegin(marketHash, owner, fails, tasks_) ==
  /\ listeners' = IF fails THEN listeners
                  ELSE [listeners EXCEPT ![marketHash] = 0]
  /\ tasks' = [tasks_ EXCEPT !.unsubs = @ \cup {[market |-> marketHash,
                                                 owner |-> owner,
                                                 fails |-> fails]}]

\* unsubscribeFromMarket(marketHash) called by the application
UnsubscribeFromMarket ==
  /\ \E marketHash \in Markets, fails \in BOOLEAN :
       IF ~HasChannel(marketHash)
       THEN /\ tasks' = Returned(marketHash, "unsubscribe: false")
            /\ UNCHANGED listeners
       ELSE /\ \A task \in tasks.unsubs :
                 task.owner = "caller" => task.market # marketHash
            /\ UnsubscribeBegin(marketHash, "caller", fails, tasks)
  /\ UNCHANGED <<realtime, isConnected, activeChannels, orderBookHistory,
                 emitted, mathVars, flowVars>>

\* the loop of disconnect() from its Map iterator at position iter, over the
\* keys keys_: it calls unsubscribeFromMarket for the next key and awaits
\* it, or, the keys exhausted, awaits realtime.connection.close()
DisconnectAdvance(keys_, iter, tasks_) ==
  IF iter < Len(keys_)
  THEN \E fails \in BOOLEAN :
         UnsubscribeBegin(keys_[iter + 1], "disconnect", fails,
                          [tasks_ EXCEPT !.disc.pc = "unsubscribing",
                                         !.disc.iter = iter + 1])
  ELSE /\ tasks' = [tasks_ EXCEPT !.disc.pc = "closing", !.disc.iter = iter]
       /\ UNCHANGED listeners

\* disconnect() called by the application
Disconnect ==
  /\ tasks.disc.pc \in {"none", "done"}
  /\ IF ~realtime
     THEN UNCHANGED <<listeners, tasks>>
     ELSE DisconnectAdvance(activeChannels, 0,
                            [tasks EXCEPT !.disc.overlap = {}])
  /\ UNCHANGED <<realtime, isConnected, activeChannels, orderBookHistory,
                 emitted, mathVars, flowVars>>

\* a suspended unsubscribeFromMarket resumes: it deletes the key and returns
\* true, or, channel.unsubscribe() having failed, returns false; a
\* disconnect() awaiting it goes on with its loop
UnsubscribeResumes ==
  /\ \E task \in tasks.unsubs :
       LET keys_ == IF task.fails THEN activeChannels
                    ELSE WithoutChannel(task.market)
           position == PositionOf(task.market)
           iter == IF ~task.fails /\ position > 0 /\ position <= tasks.disc.iter
                   THEN tasks.disc.iter - 1 ELSE tasks.disc.iter
           tasks_ == [tasks EXCEPT
                        !.unsubs = @ \ {task},
                        !.disc.iter = iter,
                        !.last[task.market] =
                          IF task.fails THEN "unsubscribe: false"
                          ELSE "unsubscribe: true"]
       IN  /\ activeChannels' = keys_
           /\ IF task.owner = "disconnect"
              THEN DisconnectAdvance(keys_, iter, tasks_)
              ELSE tasks' = tasks_ /\ UNCHANGED listeners
  /\ UNCHANGED <<realtime, isConnected, orderBookHistory, emitted, mathVars,
                 flowVars>>

\* disconnect() resumes after realtime.connection.close(): it clears
\* isConnected, unless close() failed, and returns
DisconnectCloses ==
  /\ tasks.disc.pc = "closing"
  /\ \E fails \in BOOLEAN :
       isConnected' = IF fails THEN isConnected ELSE FALSE
  /\ tasks' = [tasks EXCEPT !.disc.pc = "done"]
  /\ UNCHANGED <<realtime, activeChannels, orderBookHistory, emitted,
                 listeners, mathVars, flowVars>>

WebsocketInit == WsIdle /\ MathIdle /\ FlowIdle

\* subscriptions and incoming updates
WebsocketNext ==
  \/ Initialize
  \/ ConnectionEvent
  \/ SubscribeToMarket
  \/ DeliverMessage
  \/ UnsubscribeFromMarket
  \/ UnsubscribeResumes

WebsocketSpec == WebsocketInit /\ [][WebsocketNext]_vars

\* subscriptions and disconnect()
LifecycleNext ==
  \/ Initialize
  \/ ConnectionEvent
  \/ SubscribeToMarket
  \/ UnsubscribeFromMarket
  \/ UnsubscribeResumes
  \/ Disconnect
  \/ DisconnectCloses

LifecycleSpec == WebsocketInit /\ [][LifecycleNext]_vars

\* a client after initialize() has returned true: the Ably client exists and
\* the handler of 'connected' has run
UpdatesInit ==
  /\ realtime = TRUE
  /\ isConnected = TRUE
  /\ activeChannels = <<>>
  /\ orderBookHistory = [m \in {} |-> <<>>]
  /\ emitted = <<>>
  /\ listeners = [m \in Markets |-> 0]
  /\ tasks = NoTasks
  /\ MathIdle
  /\ env = [PRIVATE_KEY |-> TRUE]
  /\ pc = "idle"
  /\ call = NoCall
  /\ frame = NoFrame
  /\ signCalls = <<>>
  /\ httpCalls = <<>>
  /\ outcome = Unset

\* subscriptions and incoming updates while the connection stays up
UpdatesNext ==
  \/ SubscribeToMarket
  \/ DeliverMessage
  \/ UnsubscribeFromMarket
  \/ UnsubscribeResumes

UpdatesSpec == UpdatesInit /\ [][UpdatesNext]_vars

(***************************************************************************)
(* Properties of the websocket client                                      *)
(***************************************************************************)
\* C20: after any sequence of subscribeToMarket, unsubscribeFromMarket and
\* incoming updates, with no call suspended, the keys of
\* getAllOrderBookHistory() are exactly the markets of getSubscribedMarkets();
\* an unsubscribed market no longer appears.
C20_HistoryKeysAreSubscribedMarkets ==
  tasks.unsubs = {} =>
    DOMAIN getAllOrderBookHistory
      = {getSubscribedMarkets[i] : i \in DOMAIN getSubscribedMarkets}

\* no unsubscribeFromMarket call is suspended
NothingSuspended == tasks.unsubs = {}

\* C21: after any sequence of operations, getSubscribedMarkets() contains a
\* market m if and only if the most recent completed subscribe/unsubscribe
\* call for m was a subscribeToMarket(m) that returned true, and no channel
\* carries more than one callback.
C21_SubscribedIffLastSubscribeSucceeded ==
  /\ NothingSuspended =>
       \A m \in Markets :
         HasChannel(m) <=> tasks.last[m] = "subscribe: true"
  /\ \A m \in Markets : listeners[m] <= 1

\* C28: whenever disconnect() resolves on an initialized client,
\* getSubscribedMarkets() is empty and isConnected is false, whatever was
\* subscribed before and also when a channel.unsubscribe() or the connection
\* close fails.
C28_DisconnectLeavesNothing ==
  [][(tasks.disc.pc # "done" /\ tasks'.disc.pc = "done")
       => (getSubscribedMarkets' = <<>> /\ ~isConnected')]_vars

\* the entries of a message that are arrays of at least 14 values, in
\* arrival order
ValidEntries(updates) ==
  LET Valid(entry) == entry.isArray /\ Len(entry.fields) >= 14
  IN  SelectSeq(updates.items, Valid)

\* what processOrderBookUpdates(marketHash, updates) does to the client as
\* it is: the market's history grows at its end by the valid entries, in
\* order, with one event for each; nothing else changes
AppendsValidEntries(marketHash, updates) ==
  LET before == HistoryOf(orderBookHistory, marketHash)
      result == processOrderBookUpdates(orderBookHistory, marketHash, updates)
      after == HistoryOf(result, marketHash)
      events == OrderBookUpdateEvents(marketHash, updates)
      valid == ValidEntries(updates)
  IN  IF ~updates.isArray
      THEN result = orderBookHistory /\ events = <<>>
      ELSE /\ Len(after) = Len(before) + Len(valid)
           /\ SubSeq(after, 1, Len(before)) = before
           /\ Len(events) = Len(valid)
           /\ \A k \in 1 .. Len(valid) :
                /\ after[Len(before) + k].orderHash = valid[k].fields[1]
                /\ after[Len(before) + k].sportXeventId = valid[k].fields[14]
                /\ events[k].event = "orderBookUpdate"
                /\ events[k].market = marketHash
                /\ events[k].order = after[Len(before) + k]
           /\ \A m \in DOMAIN orderBookHistory \ {marketHash} :
                m \in DOMAIN result /\ result[m] = orderBookHistory[m]

\* a message the callback of the market can be handed in this state: the
\* callback is registered, and the updates received stay within MaxHistory
Receivable(marketHash, updates) ==
  /\ listeners[marketHash] > 0
  /\ Len(emitted) + Len(ValidEntries(updates)) <= MaxHistory

\* the orders of the events emitted for a market, in order
EmittedFor(marketHash) ==
  LET For(e) == e.market = marketHash
      events == SelectSeq(emitted, For)
  IN  [k \in 1 .. Len(events) |-> events[k].order]

\* C29: processOrderBookUpdates appends to the market's history exactly the
\* entries of updates that are arrays of length >= 14, in arrival order, and
\* emits one 'orderBookUpdate' event per appended entry in the same order; an
\* invalid entry is skipped without dropping later valid ones, a non-array
\* updates changes nothing, and existing entries are never removed or
\* reordered: the history of a market only grows at its end and is, entry by
\* entry, what was emitted for the market.
C29_HistoryAppendsValidEntries ==
  /\ [](\A m \in Markets, updates \in UpdateBatches :
          Receivable(m, updates) => AppendsValidEntries(m, updates))
  /\ [](\A m \in Markets : HistoryOf(orderBookHistory, m) = EmittedFor(m))
  /\ [][\A m \in Markets :
          /\ Len(HistoryOf(orderBookHistory', m))
               >= Len(HistoryOf(orderBookHistory, m))
          /\ SubSeq(HistoryOf(orderBookHistory', m), 1,
                    Len(HistoryOf(orderBookHistory, m)))
               = HistoryOf(orderBookHistory, m)]_vars

\* two messages have been processed for one market, one entry each
C29_Witness ==
  \E m \in Markets :
    /\ Len(HistoryOf(orderBookHistory, m)) = 2
    /\ orderBookHistory[m][1].orderHash # orderBookHistory[m][2].orderHash
    /\ Len(emitted) = 2

\* a callback that records updates is registered on the market's channel
RecordsUpdates(marketHash) == listeners[marketHash] > 0

\* C30: operations that interleave at await points leave no live
\* subscription behind: if subscribeToMarket(m) runs while disconnect() is
\* suspended, then when disconnect() resolves m is not in
\* getSubscribedMarkets() and no channel callback for m is registered; and
\* while an unsubscribeFromMarket(m) is awaiting, no update is recorded for m
\* unless getSubscribedMarkets() lists it.
C30_NoSubscriptionSurvivesDisconnect ==
  /\ [][(tasks.disc.pc # "done" /\ tasks'.disc.pc = "done")
          => \A m \in tasks'.disc.overlap :
               ~HasChannel(m)' /\ ~RecordsUpdates(m)']_vars
  /\ [](\A task \in tasks.unsubs :
          RecordsUpdates(task.market) => HasChannel(task.market))

====
